---- MODULE Spec2Model ----
(***************************************************************************)
(* Showcase page of the catalog (ShowcasePage) and its favorites queries   *)
(* (use-favorites.ts): the filter / sort / pagination pipeline that runs   *)
(* on every render, the catalog load, and the favorite toggle protocol on  *)
(* top of the query cache and the favorite service.                        *)
(*                                                                         *)
(* A catalog item is represented by its id; Item(i) is the record the      *)
(* snapshot holds for it.  No handler writes a field of an item, so the    *)
(* arrays storeData.flows and storeData.components are sequences of ids.   *)
(* A string is a sequence of one-character strings.                        *)
(***************************************************************************)
EXTENDS Integers, Sequences, FiniteSets, TLC

(***************************************************************************)
(* Bounds of the model.                                                    *)
(***************************************************************************)
\* number of flows in the snapshot (ids 1..NumFlows)
NumFlows == 26
\* number of components in the snapshot (ids NumFlows+1..NumFlows+NumComponents)
NumComponents == 2
\* number of toggleFavorite invocations in one run
MaxToggles == 2
\* number of openPreview invocations in one run
MaxPreviews == 2
\* number of grabFlow invocations that start a request in one run
MaxGrabs == 2
\* number of handleDownload invocations that start a request in one run
MaxDownloads == 2
MaxNameLen == 5

(***************************************************************************)
(* Program constants.                                                      *)
(***************************************************************************)
itemsPerPage == 24

(***************************************************************************)
(* Strings.                                                                *)
(***************************************************************************)
Letters == <<"a","b","c","d","e","f","g","h","i","j","k","l","m",
             "n","o","p","q","r","s","t","u","v","w","x","y","z">>
Capitals == <<"A","B","C","D","E","F","G","H","I","J","K","L","M",
              "N","O","P","Q","R","S","T","U","V","W","X","Y","Z">>

\* the value of an absent (undefined) string field
Undefined == <<"<undefined>">>

\* JavaScript truthiness of a string-valued expression
Truthy(s) == s # Undefined /\ s # <<>>

\* the characters strings are made of
Chars == {Letters[i] : i \in 1..Len(Letters)} \cup {Capitals[i] : i \in 1..Len(Capitals)}
           \cup {" "}

IsCapital(c) == \E i \in 1..Len(Capitals) : Capitals[i] = c

\* the lower case form of each character
LowerChars ==
  [c \in Chars |->
     IF IsCapital(c)
     THEN Letters[CHOOSE i \in 1..Len(Capitals) : Capitals[i] = c]
     ELSE c]

LowerChar(c) == LowerChars[c]

\* String.prototype.toLowerCase
ToLowerCase(s) == [i \in 1..Len(s) |-> LowerChar(s[i])]

\* String.prototype.includes
Includes(s, sub) ==
  \E k \in 0..(Len(s) - Len(sub)) :
    \A j \in 1..Len(sub) : s[k + j] = sub[j]

\* collation weight of a character: space before the letters, a letter and
\* its capital share a primary weight
PrimaryWeights ==
  [c \in Chars |->
     IF c = " " THEN 0
     ELSE CHOOSE i \in 1..Len(Letters) : Letters[i] = LowerChar(c)]

PrimaryWeight(c) == PrimaryWeights[c]

RECURSIVE ComparePrimary(_, _)
ComparePrimary(a, b) ==
  IF a = <<>> /\ b = <<>> THEN 0
  ELSE IF a = <<>> THEN -1
  ELSE IF b = <<>> THEN 1
  ELSE IF PrimaryWeight(Head(a)) < PrimaryWeight(Head(b)) THEN -1
  ELSE IF PrimaryWeight(Head(a)) > PrimaryWeight(Head(b)) THEN 1
  ELSE ComparePrimary(Tail(a), Tail(b))

RECURSIVE CompareCase(_, _)
CompareCase(a, b) ==
  IF a = <<>> \/ b = <<>> THEN 0
  ELSE IF Head(a) = Head(b) THEN CompareCase(Tail(a), Tail(b))
  ELSE IF LowerChar(Head(b)) # Head(b) THEN -1
  ELSE 1

\* String.prototype.localeCompare in the default locale: base letters decide,
\* and only between strings with the same letters the case does (lower first)
LocaleCompare(a, b) ==
  IF ComparePrimary(a, b) # 0 THEN ComparePrimary(a, b) ELSE CompareCase(a, b)

(***************************************************************************)
(* The snapshot served as store_index.json.                                *)
(***************************************************************************)
FlowIds == 1..NumFlows
ComponentIds == (NumFlows + 1)..(NumFlows + NumComponents)
ItemIds == FlowIds \cup ComponentIds

\* items of a snapshot whose records lack fields the StoreItem interface
\* declares: a flow without author and without tags, a flow whose author has no
\* username and whose first tag entry has no name, and a component whose only
\* tag entry has no name
NoAuthorId == NumFlows + NumComponents + 1
NoUsernameId == NumFlows + NumComponents + 2
NoTagNameId == NumFlows + NumComponents + 3
MalformedIds == {NoAuthorId, NoUsernameId, NoTagNameId}

ItemName(i) ==
  CASE i = 1 -> <<"B","a","n">>
    [] i = 2 -> <<"a","p","p">>
    [] i = 3 -> <<"C","h","e">>
    [] i = 4 -> <<"A","p","p">>
    [] i = NumFlows + 1 -> <<"S","u","m">>
    [] i = NoAuthorId -> <<"A","p","t">>
    [] i = NoUsernameId -> <<"c","a","p">>
    [] i = NoTagNameId -> <<"t","a","g">>
    [] i \in FlowIds -> <<"f","l","o","w">>
    [] OTHER -> <<"c","o","m","p">>

ItemDescription(i) ==
  CASE i = 1 -> <<"e","t","l">>
    [] i = NumFlows + 1 -> <<"a","p","i">>
    [] OTHER -> <<>>

ItemAuthor(i) ==
  CASE i \in {1, 2} ->
         [present |-> TRUE, username |-> <<"B","o","b">>, full_name |-> Undefined]
    [] i = NumFlows + 1 ->
         [present |-> TRUE, username |-> <<"b","o">>, full_name |-> <<"B","o">>]
    [] i = NoAuthorId ->
         [present |-> FALSE, username |-> Undefined, full_name |-> Undefined]
    [] i = NoUsernameId ->
         [present |-> TRUE, username |-> Undefined, full_name |-> <<"B","o","b">>]
    [] OTHER ->
         [present |-> TRUE, username |-> <<"a","n","n">>, full_name |-> Undefined]

ItemStats(i) ==
  CASE i = 1 -> [downloads |-> 1, likes |-> 2]
    [] i = 2 -> [downloads |-> 4, likes |-> 0]
    [] i = 3 -> [downloads |-> 0, likes |-> 3]
    [] i = 4 -> [downloads |-> 2, likes |-> 2]
    [] i = NumFlows + 1 -> [downloads |-> 5, likes |-> 1]
    [] i = NoUsernameId -> [downloads |-> 2, likes |-> 2]
    [] OTHER -> [downloads |-> 0, likes |-> 0]

\* dates.updated, as the number new Date(...).getTime() yields for it
ItemUpdated(i) ==
  CASE i = 1 -> 3
    [] i = 2 -> 5
    [] i = 3 -> 5
    [] i = NumFlows + 1 -> 4
    [] OTHER -> 1

\* item.tags is an array
ItemHasTags(i) == i # NoAuthorId

\* tags: the names of the tags_id records, Undefined for an entry without one
ItemTags(i) ==
  CASE i = 1 -> << <<"a","i">> >>
    [] i = 2 -> << <<"a","i">>, <<"d","b">> >>
    [] i = NumFlows + 1 -> << <<"D","B">> >>
    [] i = NoUsernameId -> << Undefined, <<"a","i">> >>
    [] i = NoTagNameId -> << Undefined >>
    [] OTHER -> << >>

ItemTechnical(i) ==
  CASE i = 2 -> [present |-> TRUE, last_tested_version |-> <<"a","b">>, private |-> TRUE]
    [] i = 3 -> [present |-> TRUE, last_tested_version |-> Undefined, private |-> FALSE]
    [] OTHER -> [present |-> FALSE, last_tested_version |-> Undefined, private |-> FALSE]

ItemType(i) ==
  IF i \in FlowIds \cup {NoAuthorId, NoUsernameId} THEN "FLOW" ELSE "COMPONENT"

\* the StoreItem records of the snapshot, by id
StoreItems ==
  [i \in ItemIds \cup MalformedIds |->
    [id |-> i, name |-> ItemName(i), description |-> ItemDescription(i),
     type |-> ItemType(i), author |-> ItemAuthor(i), stats |-> ItemStats(i),
     updated |-> ItemUpdated(i), hasTags |-> ItemHasTags(i), tags |-> ItemTags(i),
     technical |-> ItemTechnical(i)]]

Item(i) == StoreItems[i]

\* the StoreData of store_index.json
StoreIndex ==
  [isNull |-> FALSE,
   flows |-> [k \in 1..NumFlows |-> k],
   components |-> [k \in 1..NumComponents |-> NumFlows + k]]

\* a store_index.json that holds the items with missing fields among others
MalformedIndex ==
  [isNull |-> FALSE,
   flows |-> <<1, NoAuthorId, 2, 3, NoUsernameId, 4>>,
   components |-> <<NumFlows + 1, NoTagNameId>>]

\* useState<StoreData | null>(null)
NullStoreData == [isNull |-> TRUE, flows |-> <<>>, components |-> <<>>]

(***************************************************************************)
(* getFilteredItems.                                                       *)
(***************************************************************************)
\* Array.prototype.filter is SelectSeq: the elements that pass, in their order

\* the predicate of the search filter, searchLower = searchTerm.toLowerCase()
MatchesSearch(i, searchLower) ==
  \/ Includes(ToLowerCase(Item(i).name), searchLower)
  \/ Includes(ToLowerCase(Item(i).description), searchLower)
  \/ /\ Item(i).author.present
     /\ Truthy(Item(i).author.username)
     /\ Includes(ToLowerCase(Item(i).author.username), searchLower)
  \/ /\ Item(i).hasTags
     /\ \E t \in 1..Len(Item(i).tags) :
          /\ Truthy(Item(i).tags[t])
          /\ Includes(ToLowerCase(Item(i).tags[t]), searchLower)
  \/ /\ Item(i).technical.present
     /\ Truthy(Item(i).technical.last_tested_version)
     /\ Includes(ToLowerCase(Item(i).technical.last_tested_version), searchLower)

\* a tag filter that lets an entry without a name pass
MatchesTagsUnguarded(i, tags) ==
  /\ Item(i).hasTags
  /\ \E t \in 1..Len(Item(i).tags) :
       \/ ~Truthy(Item(i).tags[t])
       \/ \E k \in 1..Len(tags) : tags[k] = Item(i).tags[t]

\* the predicate of the tag filter
MatchesTags(i, tags) ==
  /\ Item(i).hasTags
  /\ \E t \in 1..Len(Item(i).tags) :
       /\ Truthy(Item(i).tags[t])
       /\ \E k \in 1..Len(tags) : tags[k] = Item(i).tags[t]

\* item.author.username.toLowerCase() is a TypeError without an author or a username
AuthorThrows(i) ==
  ~Item(i).author.present \/ Item(i).author.username = Undefined

\* the predicate of the author filter
MatchesAuthor(i, author) ==
  /\ ~AuthorThrows(i)
  /\ Includes(ToLowerCase(Item(i).author.username), ToLowerCase(author))

\* the predicate of the private filter
MatchesPrivate(i) == Item(i).technical.present /\ Item(i).technical.private

\* the comparators handed to Array.prototype.sort
Compare(sort, a, b) ==
  CASE sort = "popular" ->
         (Item(b).stats.likes + Item(b).stats.downloads)
           - (Item(a).stats.likes + Item(a).stats.downloads)
    [] sort = "recent" -> Item(b).updated - Item(a).updated
    [] sort = "alphabetical" -> LocaleCompare(Item(a).name, Item(b).name)
    [] sort = "downloads" -> Item(b).stats.downloads - Item(a).stats.downloads
    [] sort = "likes" -> Item(b).stats.likes - Item(a).stats.likes
    [] OTHER -> 0

\* a merge that takes the later of two elements that compare equal first
RECURSIVE MergeLaterFirst(_, _, _)
MergeLaterFirst(a, b, sort) ==
  IF a = <<>> THEN b
  ELSE IF b = <<>> THEN a
  ELSE IF Compare(sort, Head(a), Head(b)) < 0
       THEN <<Head(a)>> \o MergeLaterFirst(Tail(a), b, sort)
       ELSE <<Head(b)>> \o MergeLaterFirst(a, Tail(b), sort)

\* Array.prototype.sort is a stable merge sort: of two elements that compare
\* equal the one that came first stays first
RECURSIVE Merge(_, _, _)
Merge(a, b, sort) ==
  IF a = <<>> THEN b
  ELSE IF b = <<>> THEN a
  ELSE IF Compare(sort, Head(a), Head(b)) <= 0
       THEN <<Head(a)>> \o Merge(Tail(a), b, sort)
       ELSE <<Head(b)>> \o Merge(a, Tail(b), sort)

RECURSIVE SortItems(_, _)
SortItems(items, sort) ==
  IF Len(items) <= 1 THEN items
  ELSE LET h == Len(items) \div 2
       IN Merge(SortItems(SubSeq(items, 1, h), sort),
                SortItems(SubSeq(items, h + 1, Len(items)), sort), sort)

\* TabItems with a Favorites tab that looks through the flows only
TabItemsFavoriteFlowsOnly(sd, tab, favs) ==
  CASE tab = "all" -> sd.flows \o sd.components
    [] tab = "flows" -> sd.flows
    [] tab = "components" -> sd.components
    [] tab = "favorites" ->
         LET IsFav(i) == i \in favs IN SelectSeq(sd.flows, IsFav)
    [] OTHER -> <<>>

\* items of the selected tab, before the filters
TabItems(sd, tab, favs) ==
  CASE tab = "all" -> sd.flows \o sd.components
    [] tab = "flows" -> sd.flows
    [] tab = "components" -> sd.components
    [] tab = "favorites" ->
         LET IsFav(i) == i \in favs IN SelectSeq(sd.flows \o sd.components, IsFav)
    [] OTHER -> <<>>

\* items is still the array of storeData itself when the tab assigned it and no
\* filter replaced it by a copy
AliasOf(tab, search, tags, author, private) ==
  IF search = <<>> /\ tags = <<>> /\ author = <<>> /\ ~private
     /\ tab \in {"flows", "components"}
  THEN tab ELSE "none"

\* the author filter of getFilteredItems meets an item it cannot read
getFilteredItemsThrows(sd, tab, search, tags, author, favs) ==
  /\ ~sd.isNull
  /\ author # <<>>
  /\ LET s0 == TabItems(sd, tab, favs)
         searchLower == ToLowerCase(search)
         KeepSearch(i) == MatchesSearch(i, searchLower)
         s1 == IF search # <<>> THEN SelectSeq(s0, KeepSearch) ELSE s0
         KeepTags(i) == MatchesTags(i, tags)
         s2 == IF Len(tags) > 0 THEN SelectSeq(s1, KeepTags) ELSE s1
     IN \E k \in 1..Len(s2) : AuthorThrows(s2[k])

\* getFilteredItems: the list it returns (nothing is rendered when it throws)
getFilteredItems(sd, tab, search, tags, author, private, sort, favs) ==
  IF sd.isNull \/ getFilteredItemsThrows(sd, tab, search, tags, author, favs)
  THEN <<>>
  ELSE
    LET s0 == TabItems(sd, tab, favs)
        searchLower == ToLowerCase(search)
        KeepSearch(i) == MatchesSearch(i, searchLower)
        s1 == IF search # <<>> THEN SelectSeq(s0, KeepSearch) ELSE s0
        KeepTags(i) == MatchesTags(i, tags)
        s2 == IF Len(tags) > 0 THEN SelectSeq(s1, KeepTags) ELSE s1
        KeepAuthor(i) == MatchesAuthor(i, author)
        s3 == IF author # <<>> THEN SelectSeq(s2, KeepAuthor) ELSE s2
        s4 == IF private THEN SelectSeq(s3, MatchesPrivate) ELSE s3
    IN SortItems(s4, sort)

\* Math.ceil(n / d) for n >= 0, d > 0
Ceil(n, d) == (n + d - 1) \div d

\* Math.ceil(filteredItems.length / itemsPerPage)
TotalPagesOf(items) == Ceil(Len(items), itemsPerPage)

\* filteredItems.slice((currentPage - 1) * itemsPerPage, currentPage * itemsPerPage)
Slice(items, from, to) ==
  LET lo == IF from > Len(items) THEN Len(items) ELSE from
      hi == IF to > Len(items) THEN Len(items) ELSE to
  IN IF hi > lo THEN SubSeq(items, lo + 1, hi) ELSE <<>>

\* a slice that runs one item into the next page
PaginatedItemsOverlapping(items, page) ==
  Slice(items, (page - 1) * itemsPerPage, page * itemsPerPage + 1)

PaginatedItemsOf(items, page) ==
  Slice(items, (page - 1) * itemsPerPage, page * itemsPerPage)

(***************************************************************************)
(* FlowPreviewDialog: the graph it is given or builds.  A node is its id,  *)
(* type and data.label, an edge its id, source and target.                 *)
(***************************************************************************)
\* useState<FlowData | null>(null)
NullFlowData ==
  [isNull |-> TRUE, nodes |-> <<>>, edges |-> <<>>, viewport |-> [x |-> 0, y |-> 0, zoom |-> 1]]

DefaultViewport == [x |-> 0, y |-> 0, zoom |-> 1]

\* a placeholder that draws every item as a flow
createPlaceholderFlowOfFlow(i) ==
  [isNull |-> FALSE,
   nodes |-> <<[id |-> "start-1", type |-> "input", label |-> <<"I","n","p","u","t">>],
               [id |-> "process-1", type |-> "default", label |-> Item(i).name],
               [id |-> "output-1", type |-> "output", label |-> <<"O","u","t","p","u","t">>]>>,
   edges |-> <<[id |-> "e1-2", source |-> "start-1", target |-> "process-1"],
               [id |-> "e2-3", source |-> "process-1", target |-> "output-1"]>>,
   viewport |-> [x |-> 0, y |-> 0, zoom |-> 1]]

createPlaceholderFlow(i) ==
  IF Item(i).type = "COMPONENT"
  THEN [isNull |-> FALSE,
        nodes |-> <<[id |-> "component-1", type |-> "default", label |-> Item(i).name]>>,
        edges |-> <<>>,
        viewport |-> [x |-> 0, y |-> 0, zoom |-> 1]]
  ELSE [isNull |-> FALSE,
        nodes |-> <<[id |-> "start-1", type |-> "input", label |-> <<"I","n","p","u","t">>],
                    [id |-> "process-1", type |-> "default", label |-> Item(i).name],
                    [id |-> "output-1", type |-> "output", label |-> <<"O","u","t","p","u","t">>]>>,
        edges |-> <<[id |-> "e1-2", source |-> "start-1", target |-> "process-1"],
                    [id |-> "e2-3", source |-> "process-1", target |-> "output-1"]>>,
        viewport |-> [x |-> 0, y |-> 0, zoom |-> 1]]

\* the graph the store holds for an item
StoredNodes(i) ==
  <<[id |-> "node-1", type |-> "genericNode", label |-> Item(i).name],
    [id |-> "node-2", type |-> "genericNode", label |-> <<"o","u","t">>]>>
StoredEdges(i) == <<[id |-> "edge-1", source |-> "node-1", target |-> "node-2"]>>
StoredViewport(i) == [x |-> i, y |-> 0, zoom |-> 2]

\* what fetch(`/api/v1/axiestudio-store/download/${item.id}`) and response.json()
\* can bring: a rejection (of the fetch or of the parse), a response that is not
\* ok, or the parsed JSON, whose data, data.nodes, data.edges and data.viewport
\* may each be missing and whose lists may be empty
NoResponse ==
  [kind |-> "none", hasData |-> FALSE, hasNodes |-> FALSE, nodes |-> <<>>,
   hasEdges |-> FALSE, edges |-> <<>>, hasViewport |-> FALSE, viewport |-> DefaultViewport]
ThrowsResponse == [NoResponse EXCEPT !.kind = "throws"]
NotOkResponse == [NoResponse EXCEPT !.kind = "notOk"]
NoDataResponse == [NoResponse EXCEPT !.kind = "ok"]
OkResponse(n, e, v, i) ==
  [kind |-> "ok", hasData |-> TRUE, hasNodes |-> n.has, nodes |-> n.list,
   hasEdges |-> e.has, edges |-> e.list, hasViewport |-> v,
   viewport |-> IF v THEN StoredViewport(i) ELSE DefaultViewport]
MissingList == [has |-> FALSE, list |-> <<>>]
EmptyList == [has |-> TRUE, list |-> <<>>]
StoredNodeList(i) == [has |-> TRUE, list |-> StoredNodes(i)]
StoredEdgeList(i) == [has |-> TRUE, list |-> StoredEdges(i)]
DataResponses(i) ==
  {OkResponse(StoredNodeList(i), StoredEdgeList(i), TRUE, i),
   OkResponse(StoredNodeList(i), StoredEdgeList(i), FALSE, i),
   OkResponse(MissingList, StoredEdgeList(i), TRUE, i),
   OkResponse(StoredNodeList(i), MissingList, TRUE, i),
   OkResponse(EmptyList, StoredEdgeList(i), TRUE, i),
   OkResponse(StoredNodeList(i), EmptyList, TRUE, i),
   OkResponse(EmptyList, EmptyList, TRUE, i)}
Responses(i) == {ThrowsResponse, NotOkResponse, NoDataResponse} \cup DataResponses(i)

\* loadFlowData: the graph it hands to setFlowData for a response.  An array is
\* truthy in JavaScript also when it is empty.
LoadedFlowData(i, r) ==
  IF r.kind = "ok" /\ r.hasData /\ r.hasNodes /\ r.hasEdges
  THEN [isNull |-> FALSE, nodes |-> r.nodes, edges |-> r.edges,
        viewport |-> IF r.hasViewport THEN r.viewport ELSE DefaultViewport]
  ELSE createPlaceholderFlow(i)

\* loadFlowData: the error it leaves
LoadedError(r, error) ==
  IF r.kind = "throws" THEN "Failed to load flow preview" ELSE error

(***************************************************************************)
(* sanitizeFilename and the path of the export artifact.                   *)
(***************************************************************************)
\* the characters \s matches, among those names are made of
IsSpace(c) == c \in {" ", "\t"}

\* String.prototype.replace(/[...]/g, ''): the characters of the class removed
RemoveChars(s, class) ==
  LET Keep(c) == c \notin class IN SelectSeq(s, Keep)

\* the length of the run of whitespace that starts at position p
RECURSIVE SpaceRun(_, _)
SpaceRun(s, p) ==
  IF p <= Len(s) /\ IsSpace(s[p]) THEN 1 + SpaceRun(s, p + 1) ELSE 0

\* .replace(/\s*\+\s*/g, '  ') from position p on: a plus sign with the
\* whitespace around it becomes two spaces
RECURSIVE ReplacePlus(_, _)
ReplacePlus(s, p) ==
  IF p > Len(s) THEN <<>>
  ELSE LET w == SpaceRun(s, p)
       IN IF p + w <= Len(s) /\ s[p + w] = "+"
          THEN <<" ", " ">> \o ReplacePlus(s, p + w + 1 + SpaceRun(s, p + w + 1))
          ELSE <<s[p]>> \o ReplacePlus(s, p + 1)

\* a collapse that starts at runs of four: /\s{4,}/g
RECURSIVE CollapseLongSpaces(_, _)
CollapseLongSpaces(s, p) ==
  IF p > Len(s) THEN <<>>
  ELSE LET w == SpaceRun(s, p)
       IN IF w >= 4 THEN <<" ", " ">> \o CollapseLongSpaces(s, p + w)
          ELSE IF w > 0 THEN SubSeq(s, p, p + w - 1) \o CollapseLongSpaces(s, p + w)
          ELSE <<s[p]>> \o CollapseLongSpaces(s, p + 1)

\* .replace(/\s{3,}/g, '  ') from position p on: a run of three or more
\* whitespace characters becomes two spaces
RECURSIVE CollapseSpaces(_, _)
CollapseSpaces(s, p) ==
  IF p > Len(s) THEN <<>>
  ELSE LET w == SpaceRun(s, p)
       IN IF w >= 3 THEN <<" ", " ">> \o CollapseSpaces(s, p + w)
          ELSE IF w > 0 THEN SubSeq(s, p, p + w - 1) \o CollapseSpaces(s, p + w)
          ELSE <<s[p]>> \o CollapseSpaces(s, p + 1)

\* String.prototype.trim
RECURSIVE Trim(_)
Trim(s) ==
  IF s = <<>> THEN s
  ELSE IF IsSpace(Head(s)) THEN Trim(Tail(s))
  ELSE IF IsSpace(s[Len(s)]) THEN Trim(SubSeq(s, 1, Len(s) - 1))
  ELSE s

Parentheses == {"(", ")"}
InvalidFilenameChars == {"<", ">", ":", "\"", "/", "\\", "|", "?", "*"}

sanitizeFilename(name) ==
  Trim(CollapseSpaces(
         ReplacePlus(RemoveChars(RemoveChars(name, Parentheses), InvalidFilenameChars), 1),
         1))

\* `/store_components_converted/${folder}/${item.id}_${sanitizedName}.json`
FilePath(item) ==
  [folder |-> IF item.type = "FLOW" THEN "flows" ELSE "components",
   id |-> item.id,
   sanitizedName |-> sanitizeFilename(item.name)]

(***************************************************************************)
(* State.                                                                  *)
(***************************************************************************)
VARIABLES
  storeData,        \* useState<StoreData | null>
  loading,          \* useState(true); true while the snapshot fetch is in flight
  searchTerm, sortBy, activeTab, selectedTags, authorFilter, showPrivateOnly,
  currentPage,
  filteredItems,    \* const filteredItems of the last render
  favData,          \* data of the query ["favorites", "item-ids"]
  favStatus,        \* status of that query
  favFetch,         \* the fetch of that query the cache is waiting for
  serverFavorites,  \* the favorite service's set of favorited item ids
  toggles,          \* the toggleFavorite calls so far and their requests: the item
                    \* id, how far the request is (sent, replied by the service,
                    \* resolved or rejected at the page), is_favorited of the
                    \* response, whether the id list was loaded at the call
                    \* (hadList) and whether another call for the id was
                    \* still in flight then (overlap)
  lastResult,       \* per item id, is_favorited of the last resolved response
  lastAlert,        \* the alert store's latest notification
  lastEvent,        \* the user event handled last, and the page it was handled on
  previewItem,      \* useState<StoreItem | null>(null), 0 for null
  isPreviewOpen,    \* useState(false)
  flowData,         \* FlowPreviewDialog: useState<FlowData | null>(null)
  previewLoading,   \* FlowPreviewDialog: useState(false), its loading
  previewError,     \* FlowPreviewDialog: useState<string | null>(null), its error
  previewFetches,   \* the loadFlowData calls so far: the item, how far the request
                    \* is (sent, replied by the store, done) and the response
  grabbingItems,    \* useState<Set<string>>(new Set())
  downloadingItems, \* useState<Set<string>>(new Set())
  rendered,         \* grabbingItems and downloadingItems as the last render saw
                    \* them: the values the handlers of the cards close over
  grabs,            \* the addFlowMutation requests of grabFlow: the item, the
                    \* flow data sent, how far the request is
  downloads,        \* the fetches of handleDownload: the item, the path fetched,
                    \* how far the request is
  workspace,        \* the flows the workspace service has created
  navigation,       \* "none", "scheduled" once setTimeout(() => navigate('/'))
                    \* was called, "left" once the router has left the page
  typeFilter,       \* useState("all")
  showFavoritesOnly, \* useState(false)
  viewMode          \* useState<"grid" | "list">("grid")

criteria == <<searchTerm, sortBy, activeTab, selectedTags, authorFilter, showPrivateOnly>>
queryVars == <<favData, favStatus, favFetch>>
pageVars == <<storeData, loading, criteria, currentPage, filteredItems, queryVars,
              serverFavorites, toggles, lastResult, lastAlert>>
previewVars == <<previewItem, isPreviewOpen, flowData, previewLoading, previewError,
                 previewFetches>>
opVars == <<grabbingItems, downloadingItems, rendered, grabs, downloads, workspace,
            navigation>>
controlVars == <<typeFilter, showFavoritesOnly, viewMode>>
vars == <<pageVars, lastEvent, previewVars, opVars, controlVars>>

\* values the inputs of the page are drawn from
SearchTerms == {<<>>, <<"A","P">>}
AuthorFilters == {<<>>, <<"B","O">>}
SortKeys == {"popular", "recent", "alphabetical", "downloads", "likes"}
Tabs == {"all", "flows", "components", "favorites"}
\* the items whose heart button is used
ToggleIds == {1, NumFlows + 1}
\* what the favorite service holds when the page is mounted
InitialFavorites == 1..(itemsPerPage + 1)

NoFetch == [phase |-> "idle", payload |-> {}]
SentFetch == [phase |-> "sent", payload |-> {}]

\* const { data: favoriteItemIds = [] } = useGetFavoriteItemIds()
favoriteItemIdsOf(data) == IF data.defined THEN data.ids ELSE {}
\* const favorites = new Set(favoriteItemIds)
favorites == favoriteItemIdsOf(favData)

\* the page is mounted and past its loading screen
PageShown == ~loading /\ navigation # "left"

totalPages == TotalPagesOf(filteredItems)
paginatedItems == PaginatedItemsOf(filteredItems, currentPage)

Range(s) == {s[k] : k \in 1..Len(s)}

Init ==
  /\ storeData = NullStoreData
  /\ loading = TRUE
  /\ searchTerm = <<>>
  /\ sortBy = "popular"
  /\ activeTab = "all"
  /\ selectedTags = <<>>
  /\ authorFilter = <<>>
  /\ showPrivateOnly = FALSE
  /\ currentPage = 1
  /\ filteredItems = <<>>
  /\ favData = [defined |-> FALSE, ids |-> {}]
  /\ favStatus = "pending"
  /\ favFetch = SentFetch
  /\ serverFavorites = InitialFavorites
  /\ toggles = <<>>
  /\ lastResult = [i \in ToggleIds |-> "none"]
  /\ lastAlert = "none"
  /\ lastEvent = [name |-> "none", page |-> 1]
  /\ previewItem = 0
  /\ isPreviewOpen = FALSE
  /\ flowData = NullFlowData
  /\ previewLoading = FALSE
  /\ previewError = "none"
  /\ previewFetches = <<>>
  /\ grabbingItems = {}
  /\ downloadingItems = {}
  /\ rendered = [grabbing |-> {}, downloading |-> {}]
  /\ grabs = <<>>
  /\ downloads = <<>>
  /\ workspace = <<>>
  /\ navigation = "none"
  /\ typeFilter = "all"
  /\ showFavoritesOnly = FALSE
  /\ viewMode = "grid"

(***************************************************************************)
(* Rendering: every state change re-runs the component body, and with it   *)
(* getFilteredItems on the state just set.                                 *)
(***************************************************************************)
Render(sd, tab, search, tags, author, private, sort, data) ==
  LET alias == IF sd.isNull THEN "none" ELSE AliasOf(tab, search, tags, author, private)
  IN /\ filteredItems' = getFilteredItems(sd, tab, search, tags, author, private,
                                          sort, favoriteItemIdsOf(data))
     \* items.sort(...) sorts in place: when items is an array of storeData, that
     \* array is the sorted list from then on
     /\ storeData' =
          [isNull |-> sd.isNull,
           flows |-> IF alias = "flows" THEN filteredItems' ELSE sd.flows,
           components |-> IF alias = "components" THEN filteredItems' ELSE sd.components]

\* a dependency list that leaves out activeTab
PageResetDepsWithoutTab(search, tags, author, private, tab) ==
  <<search, tags, author, private>>

\* the dependency list of the effect that resets the page
PageResetDeps(search, tags, author, private, tab) ==
  <<search, tags, author, private, tab>>

\* useEffect(() => setCurrentPage(1), deps): runs when a dependency is not the
\* value of the previous render; newArray: selectedTags was set to a new array
ResetPageEffect(page, oldDeps, newDeps, newArray) ==
  IF newArray \/ oldDeps # newDeps THEN 1 ELSE page

\* a handler set the criteria: render, then the page reset effect
SetCriteria(search, tags, author, private, tab, sort, newArray) ==
  /\ searchTerm' = search
  /\ selectedTags' = tags
  /\ authorFilter' = author
  /\ showPrivateOnly' = private
  /\ activeTab' = tab
  /\ sortBy' = sort
  /\ Render(storeData, tab, search, tags, author, private, sort, favData)
  /\ currentPage' =
       ResetPageEffect(currentPage,
                       PageResetDeps(searchTerm, selectedTags, authorFilter,
                                     showPrivateOnly, activeTab),
                       PageResetDeps(search, tags, author, private, tab),
                       newArray)
  /\ UNCHANGED <<loading, queryVars, serverFavorites, toggles, lastResult, lastAlert>>
  /\ UNCHANGED <<previewVars, opVars, controlVars>>

(***************************************************************************)
(* loadStoreData.                                                          *)
(***************************************************************************)
LoadStoreDataSuccess ==
  /\ loading
  /\ loading' = FALSE
  /\ Render(StoreIndex, activeTab, searchTerm, selectedTags, authorFilter,
            showPrivateOnly, sortBy, favData)
  /\ UNCHANGED lastEvent
  /\ UNCHANGED <<criteria, currentPage, queryVars, serverFavorites, toggles,
                 lastResult, lastAlert>>
  /\ UNCHANGED <<previewVars, opVars, controlVars>>

LoadStoreDataFailure ==
  /\ loading
  /\ loading' = FALSE
  /\ lastAlert' = "Failed to load showcase data"
  /\ UNCHANGED lastEvent
  /\ UNCHANGED <<storeData, criteria, currentPage, filteredItems, queryVars,
                 serverFavorites, toggles, lastResult>>
  /\ UNCHANGED <<previewVars, opVars, controlVars>>

(***************************************************************************)
(* The filter controls and the pager (rendered once loading is false).     *)
(***************************************************************************)
SetSearchTerm(v) ==
  /\ PageShown
  /\ v # searchTerm
  /\ SetCriteria(v, selectedTags, authorFilter, showPrivateOnly, activeTab, sortBy, FALSE)
  /\ lastEvent' = [name |-> "setSearchTerm", page |-> currentPage]

SetAuthorFilter(v) ==
  /\ PageShown
  /\ v # authorFilter
  /\ SetCriteria(searchTerm, selectedTags, v, showPrivateOnly, activeTab, sortBy, FALSE)
  /\ lastEvent' = [name |-> "setAuthorFilter", page |-> currentPage]

SetSortBy(v) ==
  /\ PageShown
  /\ v # sortBy
  /\ SetCriteria(searchTerm, selectedTags, authorFilter, showPrivateOnly, activeTab, v, FALSE)
  /\ lastEvent' = [name |-> "setSortBy", page |-> currentPage]

SetActiveTab(v) ==
  /\ PageShown
  /\ v # activeTab
  /\ SetCriteria(searchTerm, selectedTags, authorFilter, showPrivateOnly, v, sortBy, FALSE)
  /\ lastEvent' = [name |-> "setActiveTab", page |-> currentPage]

\* "Clear all filters", shown when the filtered list is empty
ClearAllFilters ==
  /\ PageShown
  /\ Len(filteredItems) = 0
  /\ SetCriteria(<<>>, <<>>, <<>>, FALSE, activeTab, sortBy, TRUE)
  /\ lastEvent' = [name |-> "clearAllFilters", page |-> currentPage]

SetPage(p) ==
  /\ currentPage' = p
  /\ UNCHANGED <<storeData, loading, criteria, filteredItems, queryVars,
                 serverFavorites, toggles, lastResult, lastAlert>>
  /\ UNCHANGED <<previewVars, opVars, controlVars>>

Max(a, b) == IF a > b THEN a ELSE b
Min(a, b) == IF a < b THEN a ELSE b

PreviousPage ==
  /\ PageShown /\ totalPages > 1 /\ currentPage # 1
  /\ SetPage(Max(1, currentPage - 1))
  /\ lastEvent' = [name |-> "previousPage", page |-> currentPage]

NextPage ==
  /\ PageShown /\ totalPages > 1 /\ currentPage # totalPages
  /\ SetPage(Min(totalPages, currentPage + 1))
  /\ lastEvent' = [name |-> "nextPage", page |-> currentPage]

FirstPage ==
  /\ PageShown /\ totalPages > 1 /\ currentPage # 1
  /\ SetPage(1)
  /\ lastEvent' = [name |-> "firstPage", page |-> currentPage]

LastPage ==
  /\ PageShown /\ totalPages > 1 /\ currentPage # totalPages
  /\ SetPage(totalPages)
  /\ lastEvent' = [name |-> "lastPage", page |-> currentPage]

(***************************************************************************)
(* The query ["favorites", "item-ids"] (useGetFavoriteItemIds).            *)
(***************************************************************************)
\* GET /favorites/item-ids is answered with the ids the service holds then
FavoritesServe ==
  /\ favFetch.phase = "sent"
  /\ favFetch' = [phase |-> "replied", payload |-> serverFavorites]
  /\ UNCHANGED lastEvent
  /\ UNCHANGED <<storeData, loading, criteria, currentPage, filteredItems, favData,
                 favStatus, serverFavorites, toggles, lastResult, lastAlert>>
  /\ UNCHANGED <<previewVars, opVars, controlVars>>

\* a response that is merged into the ids the query holds
FavoritesFetchMerges ==
  /\ favFetch.phase = "replied"
  /\ favFetch' = NoFetch
  /\ favData' = [defined |-> TRUE, ids |-> favorites \cup favFetch.payload]
  /\ favStatus' = "success"
  /\ Render(storeData, activeTab, searchTerm, selectedTags, authorFilter,
            showPrivateOnly, sortBy, favData')
  /\ UNCHANGED lastEvent
  /\ UNCHANGED <<loading, criteria, currentPage, serverFavorites, toggles,
                 lastResult, lastAlert>>
  /\ UNCHANGED <<previewVars, opVars, controlVars>>

\* the response arrives: it becomes the query's data and the page renders
FavoritesFetchSuccess ==
  /\ favFetch.phase = "replied"
  /\ favFetch' = NoFetch
  /\ favData' = [defined |-> TRUE, ids |-> favFetch.payload]
  /\ favStatus' = "success"
  /\ Render(storeData, activeTab, searchTerm, selectedTags, authorFilter,
            showPrivateOnly, sortBy, favData')
  /\ UNCHANGED lastEvent
  /\ UNCHANGED <<loading, criteria, currentPage, serverFavorites, toggles,
                 lastResult, lastAlert>>
  /\ UNCHANGED <<previewVars, opVars, controlVars>>

\* the request fails for good: the query keeps the data it had
FavoritesFetchError ==
  /\ favFetch.phase \in {"sent", "replied"}
  /\ favFetch' = NoFetch
  /\ favStatus' = "error"
  /\ UNCHANGED lastEvent
  /\ UNCHANGED <<storeData, loading, criteria, currentPage, filteredItems, favData,
                 serverFavorites, toggles, lastResult, lastAlert>>
  /\ UNCHANGED <<previewVars, opVars, controlVars>>

\* an invalidation with cancelRefetch: false, which lets a running fetch finish
InvalidateKeepsRunningFetch(fetch, data) ==
  IF fetch.phase = "idle" THEN SentFetch ELSE fetch

\* queryClient.invalidateQueries({ queryKey: ["favorites"] }): the mounted query
\* is fetched again; a fetch still running is cancelled and its response ignored.
\* Only the first fetch of a query that has no data yet is not cancelled: the
\* invalidation then waits for the response that fetch brings.
InvalidateFavorites(fetch, data) ==
  IF fetch.phase # "idle" /\ ~data.defined THEN fetch ELSE SentFetch

(***************************************************************************)
(* toggleFavorite and the mutation of useToggleFavorite.                   *)
(***************************************************************************)
Pending(k) == toggles[k].phase \in {"sent", "replied"}

\* the id changes sides in a set of ids
Flipped(ids, id) == IF id \in ids THEN ids \ {id} ELSE ids \cup {id}

\* a toggleFavorite that writes its guess into the query data before the request
ToggleFavoriteOptimistic(id) ==
  /\ PageShown
  /\ id \in Range(paginatedItems)
  /\ Len(toggles) < MaxToggles
  /\ toggles' = Append(toggles,
                       [id |-> id, phase |-> "sent", is_favorited |-> FALSE,
                        hadList |-> favData.defined,
                        overlap |-> \E k \in 1..Len(toggles) :
                                      Pending(k) /\ toggles[k].id = id])
  /\ favData' = [defined |-> TRUE, ids |-> Flipped(favorites, id)]
  /\ Render(storeData, activeTab, searchTerm, selectedTags, authorFilter,
            showPrivateOnly, sortBy, favData')
  /\ lastEvent' = [name |-> "toggleFavorite", page |-> currentPage]
  /\ UNCHANGED <<loading, criteria, currentPage, favStatus, favFetch,
                 serverFavorites, lastResult, lastAlert>>
  /\ UNCHANGED <<previewVars, opVars, controlVars>>

\* a toggleFavorite that sends its request without looking the item up
toggleFavoriteUnchecked(id) ==
  toggles' = Append(toggles,
                    [id |-> id, phase |-> "sent", is_favorited |-> FALSE,
                     hadList |-> favData.defined,
                     overlap |-> \E k \in 1..Len(toggles) :
                                   Pending(k) /\ toggles[k].id = id])

\* the body of toggleFavorite up to its await: the item is looked up in the
\* snapshot, and without it the function returns
toggleFavorite(id) ==
  LET found == \E k \in 1..Len(storeData.flows \o storeData.components) :
                  (storeData.flows \o storeData.components)[k] = id
  IN toggles' =
       IF found
       THEN Append(toggles,
                   [id |-> id, phase |-> "sent", is_favorited |-> FALSE,
                    hadList |-> favData.defined,
                    overlap |-> \E k \in 1..Len(toggles) :
                                  Pending(k) /\ toggles[k].id = id])
       ELSE toggles

\* toggleFavorite(itemId), from the heart button of a card on the page
ToggleFavorite(id) ==
  /\ PageShown
  /\ id \in Range(paginatedItems)
  /\ Len(toggles) < MaxToggles
  /\ toggleFavorite(id)
  /\ lastEvent' = [name |-> "toggleFavorite", page |-> currentPage]
  /\ UNCHANGED <<storeData, loading, criteria, currentPage, filteredItems, queryVars,
                 serverFavorites, lastResult, lastAlert>>
  /\ UNCHANGED <<previewVars, opVars, controlVars>>

\* an id no item of the snapshot has
UnknownId == 0
CallIds == {1, UnknownId}

\* toggleFavorite(itemId) called as a function, with any id and whatever the
\* state of the load
CallToggleFavorite(id) ==
  /\ Len(toggles) < MaxToggles
  /\ toggleFavorite(id)
  /\ lastEvent' = [name |-> "toggleFavorite(itemId)", page |-> currentPage, id |-> id]
  /\ UNCHANGED <<storeData, loading, criteria, currentPage, filteredItems, queryVars,
                 serverFavorites, lastResult, lastAlert>>
  /\ UNCHANGED <<previewVars, opVars, controlVars>>

\* POST /favorites/toggle at the favorite service: the id changes sides and the
\* response carries the new state
ServerToggle(k) ==
  /\ k \in 1..Len(toggles)
  /\ toggles[k].phase = "sent"
  /\ LET id == toggles[k].id
         now == id \notin serverFavorites
     IN /\ serverFavorites' =
             IF now THEN serverFavorites \cup {id} ELSE serverFavorites \ {id}
        /\ toggles' = [toggles EXCEPT ![k].phase = "replied", ![k].is_favorited = now]
  /\ UNCHANGED lastEvent
  /\ UNCHANGED <<storeData, loading, criteria, currentPage, filteredItems, queryVars,
                 lastResult, lastAlert>>
  /\ UNCHANGED <<previewVars, opVars, controlVars>>

\* mutateAsync resolves: onSuccess invalidates, toggleFavorite reports result.message
ToggleResolve(k) ==
  /\ k \in 1..Len(toggles)
  /\ toggles[k].phase = "replied"
  /\ toggles' = [toggles EXCEPT ![k].phase = "resolved"]
  /\ favFetch' = InvalidateFavorites(favFetch, favData)
  /\ lastResult' = [lastResult EXCEPT ![toggles[k].id] =
                      IF toggles[k].is_favorited THEN "favorited" ELSE "unfavorited"]
  /\ lastAlert' = "result.message"
  /\ UNCHANGED lastEvent
  /\ UNCHANGED <<storeData, loading, criteria, currentPage, filteredItems, favData,
                 favStatus, serverFavorites>>
  /\ UNCHANGED <<previewVars, opVars, controlVars>>

\* a rejection that leaves a flipped id behind in the query data
ToggleRejectLeavesFlip(k) ==
  /\ k \in 1..Len(toggles)
  /\ Pending(k)
  /\ toggles' = [toggles EXCEPT ![k].phase = "rejected"]
  /\ favData' = [defined |-> TRUE, ids |-> Flipped(favorites, toggles[k].id)]
  /\ Render(storeData, activeTab, searchTerm, selectedTags, authorFilter,
            showPrivateOnly, sortBy, favData')
  /\ lastAlert' = "Failed to update favorites"
  /\ UNCHANGED <<loading, criteria, currentPage, favStatus, favFetch,
                 serverFavorites, lastResult, lastEvent>>
  /\ UNCHANGED <<previewVars, opVars, controlVars>>

\* mutateAsync rejects (the request or its response was lost, or the service
\* refused): toggleFavorite raises the error alert
ToggleReject(k) ==
  /\ k \in 1..Len(toggles)
  /\ Pending(k)
  /\ toggles' = [toggles EXCEPT ![k].phase = "rejected"]
  /\ lastAlert' = "Failed to update favorites"
  /\ UNCHANGED lastEvent
  /\ UNCHANGED <<storeData, loading, criteria, currentPage, filteredItems, queryVars,
                 serverFavorites, lastResult>>
  /\ UNCHANGED <<previewVars, opVars, controlVars>>

(***************************************************************************)
(* The preview dialog: openPreview, its close, and the effect of           *)
(* FlowPreviewDialog that loads the graph.                                 *)
(***************************************************************************)
\* the items whose preview button is used
PreviewIds == {1, NumFlows + 1}

AllResponses == UNION {Responses(i) : i \in PreviewIds}

\* openPreview(item), from the card of an item on the page; the dialog is modal,
\* so the cards are out of reach while it is open.  The effect of the dialog
\* runs on the new [item, isOpen] and calls loadFlowData.
OpenPreview(i) ==
  /\ PageShown
  /\ ~isPreviewOpen
  /\ i \in Range(paginatedItems)
  /\ Len(previewFetches) < MaxPreviews
  /\ previewItem' = i
  /\ isPreviewOpen' = TRUE
  /\ previewLoading' = TRUE
  /\ previewError' = "none"
  /\ previewFetches' = Append(previewFetches,
                              [item |-> i, phase |-> "sent", response |-> NoResponse])
  /\ lastEvent' = [name |-> "openPreview", page |-> currentPage]
  /\ UNCHANGED <<pageVars, opVars, controlVars, flowData>>

\* onClose: setIsPreviewOpen(false); the effect of the dialog runs on the new
\* isOpen and clears the graph.  It returns no cleanup and aborts nothing.
ClosePreview ==
  /\ isPreviewOpen
  /\ isPreviewOpen' = FALSE
  /\ flowData' = NullFlowData
  /\ lastEvent' = [name |-> "closePreview", page |-> currentPage]
  /\ UNCHANGED <<pageVars, opVars, controlVars, previewItem, previewLoading, previewError, previewFetches>>

\* the store answers the download request of loadFlowData call k, or the
\* request fails
PreviewServe(k, r) ==
  /\ k \in 1..Len(previewFetches)
  /\ previewFetches[k].phase = "sent"
  /\ r \in Responses(previewFetches[k].item)
  /\ previewFetches' = [previewFetches EXCEPT ![k].phase = "replied", ![k].response = r]
  /\ UNCHANGED <<pageVars, opVars, controlVars, lastEvent, previewItem, isPreviewOpen, flowData,
                 previewLoading, previewError>>

\* loadFlowData call k goes on after its awaits: setFlowData, setError, and
\* setLoading(false) in the finally block
PreviewFetchSettle(k) ==
  /\ k \in 1..Len(previewFetches)
  /\ previewFetches[k].phase = "replied"
  /\ previewFetches' = [previewFetches EXCEPT ![k].phase = "done"]
  /\ flowData' = LoadedFlowData(previewFetches[k].item, previewFetches[k].response)
  /\ previewError' = LoadedError(previewFetches[k].response, previewError)
  /\ previewLoading' = FALSE
  /\ UNCHANGED <<pageVars, opVars, controlVars, lastEvent, previewItem, isPreviewOpen>>

(***************************************************************************)
(* grabFlow and handleDownload.  A handler reads grabbingItems and         *)
(* downloadingItems as the render that created it saw them; the state set  *)
(* by setGrabbingItems and setDownloadingItems reaches the handlers with   *)
(* the next render.                                                        *)
(***************************************************************************)
\* the items whose grab and download buttons are used
OperationIds == {1, NumFlows + 1}

\* the component renders again: the cards and their handlers see the sets
Rerender ==
  /\ PageShown
  /\ rendered # [grabbing |-> grabbingItems, downloading |-> downloadingItems]
  /\ rendered' = [grabbing |-> grabbingItems, downloading |-> downloadingItems]
  /\ UNCHANGED <<pageVars, lastEvent, previewVars, controlVars, grabbingItems,
                 downloadingItems, grabs, downloads, workspace, navigation>>

\* `${item.name} (Grabbed)`
GrabbedName(name) == name \o <<" ", "(", "G", "r", "a", "b", "b", "e", "d", ")">>

\* a grabFlow that sends every item as a flow
grabFlowAsFlow(i) ==
  IF i \in rendered.grabbing
  THEN UNCHANGED <<grabbingItems, grabs>>
  ELSE /\ grabbingItems' = grabbingItems \cup {i}
       /\ grabs' = Append(grabs,
                          [item |-> i, phase |-> "sent",
                           name |-> GrabbedName(Item(i).name),
                           is_component |-> FALSE])

\* the body of grabFlow up to its await: the early return, setGrabbingItems,
\* and the request of addFlowMutation.mutateAsync(flowData)
grabFlow(i) ==
  IF i \in rendered.grabbing
  THEN UNCHANGED <<grabbingItems, grabs>>
  ELSE /\ grabbingItems' = grabbingItems \cup {i}
       /\ grabs' = Append(grabs,
                          [item |-> i, phase |-> "sent",
                           name |-> GrabbedName(Item(i).name),
                           is_component |-> (Item(i).type = "COMPONENT")])

\* "Add to Flow" on the card of an item of the page; the button is disabled
\* while the card is rendered with isGrabbing
GrabFlow(i) ==
  /\ PageShown
  /\ i \in Range(paginatedItems)
  /\ i \notin rendered.grabbing
  /\ Len(grabs) < MaxGrabs
  /\ grabFlow(i)
  /\ lastEvent' = [name |-> "grabFlow", page |-> currentPage]
  /\ UNCHANGED <<pageVars, previewVars, controlVars, downloadingItems, rendered,
                 downloads, workspace, navigation>>

\* onGrab of the preview dialog: grabFlow(item); setIsPreviewOpen(false), and the
\* effect of the dialog clears the graph
GrabFromPreview ==
  /\ PageShown
  /\ isPreviewOpen
  /\ previewItem \notin rendered.grabbing
  /\ Len(grabs) < MaxGrabs
  /\ grabFlow(previewItem)
  /\ isPreviewOpen' = FALSE
  /\ flowData' = NullFlowData
  /\ lastEvent' = [name |-> "grabFlow", page |-> currentPage]
  /\ UNCHANGED <<pageVars, controlVars, previewItem, previewLoading, previewError,
                 previewFetches, downloadingItems, rendered, downloads, workspace,
                 navigation>>

\* the workspace service handles POST /flows: it creates a flow from the data
ServerAddFlow(k) ==
  /\ k \in 1..Len(grabs)
  /\ grabs[k].phase = "sent"
  /\ grabs' = [grabs EXCEPT ![k].phase = "replied"]
  /\ workspace' = Append(workspace,
                         [name |-> grabs[k].name, is_component |-> grabs[k].is_component])
  /\ UNCHANGED <<pageVars, lastEvent, previewVars, controlVars, grabbingItems,
                 downloadingItems, rendered, downloads, navigation>>

\* a finally block that leaves the id in the set
WithoutItemKept(items, id) == items

\* setGrabbingItems / setDownloadingItems(prev => ... delete(item.id)) in a
\* finally block
WithoutItem(items, id) == items \ {id}

\* a grab whose finally block empties both in-flight sets
GrabResolveClearsAll(k) ==
  /\ k \in 1..Len(grabs)
  /\ grabs[k].phase = "replied"
  /\ grabs' = [grabs EXCEPT ![k].phase = "resolved"]
  /\ lastAlert' = "Flow grabbed successfully!"
  /\ navigation' = IF navigation = "none" THEN "scheduled" ELSE navigation
  /\ grabbingItems' = {}
  /\ downloadingItems' = {}
  /\ UNCHANGED <<storeData, loading, criteria, currentPage, filteredItems, queryVars,
                 serverFavorites, toggles, lastResult, lastEvent, previewVars,
                 controlVars, rendered, downloads, workspace>>

\* mutateAsync resolves: the success alert, the navigation timer, the finally block
GrabResolve(k) ==
  /\ k \in 1..Len(grabs)
  /\ grabs[k].phase = "replied"
  /\ grabs' = [grabs EXCEPT ![k].phase = "resolved"]
  /\ lastAlert' = "Flow grabbed successfully!"
  /\ navigation' = IF navigation = "none" THEN "scheduled" ELSE navigation
  /\ grabbingItems' = WithoutItem(grabbingItems, grabs[k].item)
  /\ UNCHANGED <<storeData, loading, criteria, currentPage, filteredItems, queryVars,
                 serverFavorites, toggles, lastResult, lastEvent, previewVars,
                 controlVars, downloadingItems, rendered, downloads, workspace>>

\* mutateAsync rejects (the request or its response was lost, or the service
\* refused): the error alert, the finally block
GrabReject(k) ==
  /\ k \in 1..Len(grabs)
  /\ grabs[k].phase \in {"sent", "replied"}
  /\ grabs' = [grabs EXCEPT ![k].phase = "rejected"]
  /\ lastAlert' = "Failed to grab flow"
  /\ grabbingItems' = WithoutItem(grabbingItems, grabs[k].item)
  /\ UNCHANGED <<storeData, loading, criteria, currentPage, filteredItems, queryVars,
                 serverFavorites, toggles, lastResult, lastEvent, previewVars,
                 controlVars, downloadingItems, rendered, downloads, workspace,
                 navigation>>

\* setTimeout(() => navigate('/'), 1000) fires: the router leaves the page, the
\* page is unmounted and its in-flight sets are gone; the requests go on
NavigateHome ==
  /\ navigation = "scheduled"
  /\ navigation' = "left"
  /\ grabbingItems' = {}
  /\ downloadingItems' = {}
  /\ rendered' = [grabbing |-> {}, downloading |-> {}]
  /\ UNCHANGED <<pageVars, lastEvent, previewVars, controlVars, grabs, downloads,
                 workspace>>

\* the body of handleDownload up to its await: the early return,
\* setDownloadingItems, and fetch(filePath)
handleDownload(item) ==
  IF item.id \in rendered.downloading
  THEN UNCHANGED <<downloadingItems, downloads>>
  ELSE /\ downloadingItems' = downloadingItems \cup {item.id}
       /\ downloads' = Append(downloads,
                              [item |-> item.id, type |-> item.type, name |-> item.name,
                               filePath |-> FilePath(item), phase |-> "sent"])

\* "Download JSON" on the card of an item of the page; the button is disabled
\* while the card is rendered with isDownloading
HandleDownload(item) ==
  /\ PageShown
  /\ item.id \in Range(paginatedItems)
  /\ item.id \notin rendered.downloading
  /\ Len(downloads) < MaxDownloads
  /\ handleDownload(item)
  /\ lastEvent' = [name |-> "handleDownload", page |-> currentPage]
  /\ UNCHANGED <<pageVars, previewVars, controlVars, grabbingItems, rendered, grabs,
                 workspace, navigation>>

\* the file arrives and parses: the browser saves it, the success alert, the
\* finally block
DownloadResolve(k) ==
  /\ k \in 1..Len(downloads)
  /\ downloads[k].phase = "sent"
  /\ downloads' = [downloads EXCEPT ![k].phase = "resolved"]
  /\ lastAlert' = IF downloads[k].type = "FLOW"
                  THEN "Flow downloaded successfully!"
                  ELSE "Component downloaded successfully!"
  /\ downloadingItems' = WithoutItem(downloadingItems, downloads[k].item)
  /\ UNCHANGED <<storeData, loading, criteria, currentPage, filteredItems, queryVars,
                 serverFavorites, toggles, lastResult, lastEvent, previewVars,
                 controlVars, grabbingItems, rendered, grabs, workspace, navigation>>

\* the fetch rejects, the response is not ok or does not parse: the error
\* alert, the finally block
DownloadReject(k) ==
  /\ k \in 1..Len(downloads)
  /\ downloads[k].phase = "sent"
  /\ downloads' = [downloads EXCEPT ![k].phase = "rejected"]
  /\ lastAlert' = "Download failed"
  /\ downloadingItems' = WithoutItem(downloadingItems, downloads[k].item)
  /\ UNCHANGED <<storeData, loading, criteria, currentPage, filteredItems, queryVars,
                 serverFavorites, toggles, lastResult, lastEvent, previewVars,
                 controlVars, grabbingItems, rendered, grabs, workspace, navigation>>

(***************************************************************************)
(* The type filter select, the Favorites button and the view mode button.  *)
(***************************************************************************)
TypeFilters == {"all", "FLOW", "COMPONENT"}

\* controls whose state is among the dependencies of the page reset effect
SetControlsResetsPage(type, favoritesOnly, mode) ==
  /\ PageShown
  /\ typeFilter' = type
  /\ showFavoritesOnly' = favoritesOnly
  /\ viewMode' = mode
  /\ currentPage' = 1
  /\ Render(storeData, activeTab, searchTerm, selectedTags, authorFilter,
            showPrivateOnly, sortBy, favData)
  /\ UNCHANGED <<loading, criteria, queryVars, serverFavorites, toggles,
                 lastResult, lastAlert, previewVars, opVars>>

\* a state of the controls was set: the component renders
SetControls(type, favoritesOnly, mode) ==
  /\ PageShown
  /\ typeFilter' = type
  /\ showFavoritesOnly' = favoritesOnly
  /\ viewMode' = mode
  /\ Render(storeData, activeTab, searchTerm, selectedTags, authorFilter,
            showPrivateOnly, sortBy, favData)
  /\ UNCHANGED <<loading, criteria, currentPage, queryVars, serverFavorites, toggles,
                 lastResult, lastAlert, previewVars, opVars>>

SetTypeFilter(v) ==
  /\ v # typeFilter
  /\ SetControls(v, showFavoritesOnly, viewMode)
  /\ lastEvent' = [name |-> "setTypeFilter", page |-> currentPage]

ToggleShowFavoritesOnly ==
  /\ SetControls(typeFilter, ~showFavoritesOnly, viewMode)
  /\ lastEvent' = [name |-> "setShowFavoritesOnly", page |-> currentPage]

ToggleViewMode ==
  /\ SetControls(typeFilter, showFavoritesOnly, IF viewMode = "grid" THEN "list" ELSE "grid")
  /\ lastEvent' = [name |-> "setViewMode", page |-> currentPage]

(***************************************************************************)
(* Specification.                                                          *)
(***************************************************************************)
Next ==
  \/ LoadStoreDataSuccess
  \/ LoadStoreDataFailure
  \/ \E v \in SearchTerms : SetSearchTerm(v)
  \/ \E v \in AuthorFilters : SetAuthorFilter(v)
  \/ \E v \in SortKeys : SetSortBy(v)
  \/ \E v \in Tabs : SetActiveTab(v)
  \/ ClearAllFilters
  \/ PreviousPage
  \/ NextPage
  \/ FirstPage
  \/ LastPage
  \/ FavoritesServe
  \/ FavoritesFetchSuccess
  \/ FavoritesFetchError
  \/ \E id \in ToggleIds : ToggleFavorite(id)
  \/ \E k \in 1..MaxToggles : ServerToggle(k)
  \/ \E k \in 1..MaxToggles : ToggleResolve(k)
  \/ \E k \in 1..MaxToggles : ToggleReject(k)
  \/ \E i \in PreviewIds : OpenPreview(i)
  \/ ClosePreview
  \/ \E k \in 1..MaxPreviews : \E r \in AllResponses : PreviewServe(k, r)
  \/ \E k \in 1..MaxPreviews : PreviewFetchSettle(k)
  \/ Rerender
  \/ \E i \in OperationIds : GrabFlow(i)
  \/ GrabFromPreview
  \/ \E k \in 1..MaxGrabs : ServerAddFlow(k)
  \/ \E k \in 1..MaxGrabs : GrabResolve(k)
  \/ \E k \in 1..MaxGrabs : GrabReject(k)
  \/ NavigateHome
  \/ \E i \in OperationIds : HandleDownload(Item(i))
  \/ \E k \in 1..MaxDownloads : DownloadResolve(k)
  \/ \E k \in 1..MaxDownloads : DownloadReject(k)
  \/ \E v \in TypeFilters : SetTypeFilter(v)
  \/ ToggleShowFavoritesOnly
  \/ ToggleViewMode

Spec == Init /\ [][Next]_vars

\* browsing alone: the load, the filter controls, the pager and the query
NextBrowse ==
  \/ LoadStoreDataSuccess
  \/ LoadStoreDataFailure
  \/ \E v \in SearchTerms : SetSearchTerm(v)
  \/ \E v \in AuthorFilters : SetAuthorFilter(v)
  \/ \E v \in SortKeys : SetSortBy(v)
  \/ \E v \in Tabs : SetActiveTab(v)
  \/ ClearAllFilters
  \/ PreviousPage
  \/ NextPage
  \/ FirstPage
  \/ LastPage
  \/ FavoritesServe
  \/ FavoritesFetchSuccess
  \/ FavoritesFetchError

SpecBrowse == Init /\ [][NextBrowse]_vars

\* the favorites protocol: the load, the tabs, the pager, the query and the toggles
NextFavorites ==
  \/ LoadStoreDataSuccess
  \/ LoadStoreDataFailure
  \/ \E v \in {"all", "favorites"} : SetActiveTab(v)
  \/ PreviousPage
  \/ NextPage
  \/ FavoritesServe
  \/ FavoritesFetchSuccess
  \/ FavoritesFetchError
  \/ \E id \in ToggleIds : ToggleFavorite(id)
  \/ \E k \in 1..MaxToggles : ServerToggle(k)
  \/ \E k \in 1..MaxToggles : ToggleResolve(k)
  \/ \E k \in 1..MaxToggles : ToggleReject(k)

SpecFavorites == Init /\ [][NextFavorites]_vars

\* the preview dialog on the loaded page
NextPreview ==
  \/ LoadStoreDataSuccess
  \/ \E i \in PreviewIds : OpenPreview(i)
  \/ ClosePreview
  \/ \E k \in 1..MaxPreviews : \E r \in AllResponses : PreviewServe(k, r)
  \/ \E k \in 1..MaxPreviews : PreviewFetchSettle(k)

SpecPreview == Init /\ [][NextPreview]_vars

\* grabs on the loaded page and the workspace service
NextGrabs ==
  \/ LoadStoreDataSuccess
  \/ Rerender
  \/ \E i \in OperationIds : GrabFlow(i)
  \/ \E k \in 1..MaxGrabs : ServerAddFlow(k)
  \/ \E k \in 1..MaxGrabs : GrabResolve(k)
  \/ \E k \in 1..MaxGrabs : GrabReject(k)
  \/ NavigateHome

SpecGrabs == Init /\ [][NextGrabs]_vars

\* grabs and downloads on the loaded page
NextTransfers ==
  \/ LoadStoreDataSuccess
  \/ Rerender
  \/ \E i \in OperationIds : GrabFlow(i)
  \/ \E k \in 1..MaxGrabs : ServerAddFlow(k)
  \/ \E k \in 1..MaxGrabs : GrabResolve(k)
  \/ \E k \in 1..MaxGrabs : GrabReject(k)
  \/ NavigateHome
  \/ \E i \in OperationIds : HandleDownload(Item(i))
  \/ \E k \in 1..MaxDownloads : DownloadResolve(k)
  \/ \E k \in 1..MaxDownloads : DownloadReject(k)

SpecTransfers == Init /\ [][NextTransfers]_vars

\* every promise the page awaits settles: mutateAsync and fetch resolve or reject
SpecTransfersLive ==
  /\ SpecTransfers
  /\ \A k \in 1..MaxGrabs : WF_vars(GrabResolve(k) \/ GrabReject(k))
  /\ \A k \in 1..MaxDownloads : WF_vars(DownloadResolve(k) \/ DownloadReject(k))

\* one grab, one download and one favorite toggle of one item
NextOperations ==
  \/ LoadStoreDataSuccess
  \/ FavoritesServe
  \/ FavoritesFetchSuccess
  \/ Rerender
  \/ grabs = <<>> /\ GrabFlow(1)
  \/ \E k \in 1..MaxGrabs : ServerAddFlow(k)
  \/ \E k \in 1..MaxGrabs : GrabResolve(k)
  \/ \E k \in 1..MaxGrabs : GrabReject(k)
  \/ NavigateHome
  \/ downloads = <<>> /\ HandleDownload(Item(1))
  \/ \E k \in 1..MaxDownloads : DownloadResolve(k)
  \/ \E k \in 1..MaxDownloads : DownloadReject(k)
  \/ toggles = <<>> /\ ToggleFavorite(1)
  \/ \E k \in 1..MaxToggles : ServerToggle(k)
  \/ \E k \in 1..MaxToggles : ToggleResolve(k)
  \/ \E k \in 1..MaxToggles : ToggleReject(k)

SpecOperations == Init /\ [][NextOperations]_vars

\* the favorites query next to every kind of client operation on one item: a
\* toggle, a grab, a download, a preview and a change of the search term
NextClient ==
  \/ LoadStoreDataSuccess
  \/ FavoritesServe
  \/ FavoritesFetchSuccess
  \/ FavoritesFetchError
  \/ \E v \in SearchTerms : SetSearchTerm(v)
  \/ toggles = <<>> /\ ToggleFavorite(1)
  \/ \E k \in 1..MaxToggles : ServerToggle(k)
  \/ \E k \in 1..MaxToggles : ToggleResolve(k)
  \/ \E k \in 1..MaxToggles : ToggleReject(k)
  \/ grabs = <<>> /\ GrabFlow(1)
  \/ \E k \in 1..MaxGrabs : ServerAddFlow(k)
  \/ \E k \in 1..MaxGrabs : GrabResolve(k)
  \/ \E k \in 1..MaxGrabs : GrabReject(k)
  \/ NavigateHome
  \/ downloads = <<>> /\ HandleDownload(Item(1))
  \/ \E k \in 1..MaxDownloads : DownloadResolve(k)
  \/ \E k \in 1..MaxDownloads : DownloadReject(k)
  \/ previewFetches = <<>> /\ OpenPreview(1)
  \/ ClosePreview
  \/ \E k \in 1..MaxPreviews : PreviewServe(k, NotOkResponse)
  \/ \E k \in 1..MaxPreviews : PreviewFetchSettle(k)

SpecClient == Init /\ [][NextClient]_vars

\* toggleFavorite called with ids of the snapshot and others, before and after
\* the load
NextToggleCalls ==
  \/ LoadStoreDataSuccess
  \/ LoadStoreDataFailure
  \/ FavoritesServe
  \/ FavoritesFetchSuccess
  \/ \E id \in CallIds : CallToggleFavorite(id)
  \/ \E k \in 1..MaxToggles : ServerToggle(k)
  \/ \E k \in 1..MaxToggles : ToggleResolve(k)
  \/ \E k \in 1..MaxToggles : ToggleReject(k)

SpecToggleCalls == Init /\ [][NextToggleCalls]_vars

\* the type filter, the Favorites button and the view mode button next to two
\* tabs, two sort orders and the pager
NextControls ==
  \/ LoadStoreDataSuccess
  \/ \E v \in {"all", "flows"} : SetActiveTab(v)
  \/ \E v \in {"popular", "alphabetical"} : SetSortBy(v)
  \/ PreviousPage
  \/ NextPage
  \/ \E v \in TypeFilters : SetTypeFilter(v)
  \/ ToggleShowFavoritesOnly
  \/ ToggleViewMode

SpecControls == Init /\ [][NextControls]_vars

\* handleDownload as a function of the item: one download of an item whose name
\* is any string of at most MaxNameLen characters
NameChars == {"a", " ", "\t", "+", "(", "*"}
Names == UNION {[1..n -> NameChars] : n \in 0..MaxNameLen}
NamedItem(i, n) == [Item(i) EXCEPT !.name = n]

NextSanitize ==
  \/ LoadStoreDataSuccess
  \/ /\ downloads = <<>>
     /\ \E i \in OperationIds, n \in Names : HandleDownload(NamedItem(i, n))
  \/ \E k \in 1..MaxDownloads : DownloadResolve(k)
  \/ \E k \in 1..MaxDownloads : DownloadReject(k)

SpecSanitize == Init /\ [][NextSanitize]_vars

\* getFilteredItems as a function of its inputs: the page holds some snapshot,
\* some criteria and some favorite-id list, and renders
Snapshots == {StoreIndex, MalformedIndex}
TagSelections == {<<>>, << <<"a","i">> >>, << <<"d","b">>, <<"z","z">> >>}
FavoriteLists == {[defined |-> FALSE, ids |-> {}],
                  [defined |-> TRUE, ids |-> {2, NumFlows + 1, NoUsernameId}]}

InitFilter ==
  /\ storeData \in Snapshots
  /\ loading = FALSE
  /\ searchTerm \in SearchTerms
  /\ sortBy \in SortKeys
  /\ activeTab \in Tabs
  /\ selectedTags \in TagSelections
  /\ authorFilter \in AuthorFilters
  /\ showPrivateOnly \in BOOLEAN
  /\ currentPage = 1
  /\ filteredItems = <<>>
  /\ favData \in FavoriteLists
  /\ favStatus = IF favData.defined THEN "success" ELSE "error"
  /\ favFetch = NoFetch
  /\ serverFavorites = favData.ids
  /\ toggles = <<>>
  /\ lastResult = [i \in ToggleIds |-> "none"]
  /\ lastAlert = "none"
  /\ lastEvent = [name |-> "none", page |-> 1]
  /\ previewItem = 0
  /\ isPreviewOpen = FALSE
  /\ flowData = NullFlowData
  /\ previewLoading = FALSE
  /\ previewError = "none"
  /\ previewFetches = <<>>
  /\ grabbingItems = {}
  /\ downloadingItems = {}
  /\ rendered = [grabbing |-> {}, downloading |-> {}]
  /\ grabs = <<>>
  /\ downloads = <<>>
  /\ workspace = <<>>
  /\ navigation = "none"
  /\ typeFilter = "all"
  /\ showFavoritesOnly = FALSE
  /\ viewMode = "grid"

\* the component body runs: const filteredItems = getFilteredItems()
RenderPage ==
  /\ lastEvent.name = "none"
  /\ Render(storeData, activeTab, searchTerm, selectedTags, authorFilter,
            showPrivateOnly, sortBy, favData)
  /\ lastEvent' = [name |-> "render", page |-> currentPage]
  /\ UNCHANGED <<loading, criteria, currentPage, queryVars, serverFavorites,
                 toggles, lastResult, lastAlert>>
  /\ UNCHANGED <<previewVars, opVars, controlVars>>

NextFilter == RenderPage

SpecFilter == InitFilter /\ [][NextFilter]_vars

(***************************************************************************)
(* Properties.                                                             *)
(***************************************************************************)
\* the toggleFavorite calls made for an item id
TogglesOf(id) == {k \in 1..Len(toggles) : toggles[k].id = id}
\* this step is toggleFavorite(id) sending its request
Invoked(id) ==
  /\ Len(toggles') = Len(toggles) + 1
  /\ toggles'[Len(toggles')].id = id
\* this step settles the request of call k
Rejected(k) == Pending(k) /\ toggles'[k].phase = "rejected"
Resolved(k) == Pending(k) /\ toggles'[k].phase = "resolved"
\* this step is the arrival of a fetched id list
FetchArrived ==
  /\ favFetch.phase = "replied"
  /\ favFetch'.phase = "idle"
  /\ favData' = [defined |-> TRUE, ids |-> favFetch.payload]
\* no fetch of the id list is awaited and the last one succeeded
Reconciled == favFetch.phase = "idle" /\ favStatus = "success"
\* two calls for the id were in flight at once, and all calls for it resolved
Raced(id) == \E k \in TogglesOf(id) : toggles[k].overlap
AllResolved(id) == \A k \in TogglesOf(id) : toggles[k].phase = "resolved"
\* the calls for the id were made with the id list on display
HadList(id) == \A k \in TogglesOf(id) : toggles[k].hadList
NoFilters ==
  searchTerm = <<>> /\ selectedTags = <<>> /\ authorFilter = <<>> /\ ~showPrivateOnly
filters == <<searchTerm, selectedTags, authorFilter, showPrivateOnly, activeTab>>

\* C1: getFilteredItems is pure: whatever tabs, sort keys and filters were chosen,
\* the flows and the components of the loaded snapshot are still the items that
\* were loaded, in the order they were loaded in.
C1_SnapshotKeepsItsOrder ==
  ~storeData.isNull =>
    /\ storeData.flows = StoreIndex.flows
    /\ storeData.components = StoreIndex.components

\* C2: a failed toggle leaves the favorite-id set as it was before the toggle
\* was issued: no step of a toggle that fails (toggleFavorite sending the
\* request, the service handling it, the rejection) changes the id list the
\* page displays or anything else of the query (its status, a fetch it awaits).
C2_RejectionKeepsFavorites ==
  [][(toggles' # toggles /\ ~(\E k \in 1..Len(toggles) : Resolved(k))) =>
       /\ favData' = favData
       /\ favStatus' = favStatus
       /\ favFetch' = favFetch]_vars

\* a call was rejected while the id list was loaded, and the list is what the
\* service held before any toggle
C2_Witness ==
  /\ favData.defined
  /\ favorites = InitialFavorites
  /\ \E k \in 1..Len(toggles) : toggles[k].phase = "rejected"

C5_SettledToggleRefetches ==
  [][(\E k \in 1..Len(toggles) : Resolved(k) \/ Rejected(k)) =>
       favFetch'.phase # "idle"]_vars

\* C6: once no toggle request is in flight and no fetch of the id list is
\* awaited (the last one having succeeded), the local favorite-id set is the
\* set the favorite service holds.
C6_QuiescentMeansConsistent ==
  ((\A k \in 1..Len(toggles) : ~Pending(k)) /\ Reconciled) =>
    favorites = serverFavorites

C8_PageInRange == currentPage \in 1..Max(1, totalPages)

\* C9 as stated: every change of the criteria (searchTerm, selectedTags,
\* authorFilter, activeTab, sortBy, showPrivateOnly) resets the page to 1.
C9_CriteriaChangeResetsPage ==
  [][criteria' # criteria => currentPage' = 1]_vars

\* C9 as amended: every change of searchTerm, selectedTags, authorFilter,
\* activeTab or showPrivateOnly resets the page to 1; a change of sortBy alone
\* leaves the page where it is.
C9_FilterChangeResetsPage ==
  [][/\ filters' # filters => currentPage' = 1
     /\ (sortBy' # sortBy /\ filters' = filters) => currentPage' = currentPage]_vars

\* a filter was changed on page 2 and the page shown is page 1
C9_Witness ==
  /\ lastEvent.name \in {"setSearchTerm", "setAuthorFilter", "setActiveTab"}
  /\ lastEvent.page = 2
  /\ currentPage = 1

\* C10: totalPages is ceil(filteredItems.length / itemsPerPage) and at least 1,
\* also for an empty filtered list.
C10_TotalPagesAtLeastOne ==
  totalPages = Max(1, Ceil(Len(filteredItems), itemsPerPage))

\* the pages 1..n of the filtered list, one after the other
PagesUpTo(n) ==
  LET P[k \in 0..n] ==
        IF k = 0 THEN <<>> ELSE P[k - 1] \o PaginatedItemsOf(filteredItems, k)
  IN P[n]

\* C11: no page holds more than itemsPerPage items, and the pages 1..totalPages
\* put one after the other are the filtered list itself: they are disjoint, in
\* order, and hold every filtered item exactly once.
C11_PagesPartitionList ==
  /\ \A p \in 1..totalPages :
       Len(PaginatedItemsOf(filteredItems, p)) <= itemsPerPage
  /\ PagesUpTo(totalPages) = filteredItems

\* a list of two pages whose last page is not full
C11_Witness ==
  /\ totalPages = 2
  /\ Len(PaginatedItemsOf(filteredItems, 1)) = itemsPerPage
  /\ Len(PaginatedItemsOf(filteredItems, 2)) \in 1..(itemsPerPage - 1)

\* the state is the outcome of a render of getFilteredItems on the criteria
Rendered == lastEvent.name = "render"

\* the item has a tag entry with a name, and that name is among the tags
HasWellFormedTagIn(i, tags) ==
  /\ Item(i).hasTags
  /\ \E t \in 1..Len(Item(i).tags) :
       /\ Item(i).tags[t] # Undefined
       /\ Item(i).tags[t] \in Range(tags)

\* C12: when selectedTags is not empty, whatever the other criteria are, every
\* item of the filtered list has a well-formed tag whose name is in selectedTags
\* (an item without tags, or with nameless tag entries only, is not in the list).
C12_TaggedItemsOnly ==
  (Rendered /\ selectedTags # <<>>) =>
    \A k \in 1..Len(filteredItems) : HasWellFormedTagIn(filteredItems[k], selectedTags)

\* tags are selected, the snapshot holds items without tags and with nameless
\* tag entries, and the list holds the item that has a nameless entry and a
\* selected tag
C12_Witness ==
  /\ Rendered
  /\ selectedTags # <<>>
  /\ storeData.components = MalformedIndex.components
  /\ NoUsernameId \in Range(filteredItems)
  /\ NoAuthorId \notin Range(filteredItems)

\* the items a strictly conjunctive filter returns: those of the selected tab
\* that pass every stage, where an empty term passes every item and an absent
\* field matches nothing
PassesEveryStage(i) ==
  /\ searchTerm = <<>> \/ MatchesSearch(i, ToLowerCase(searchTerm))
  /\ selectedTags = <<>> \/ HasWellFormedTagIn(i, selectedTags)
  /\ \/ authorFilter = <<>>
     \/ /\ Item(i).author.present
        /\ Item(i).author.username # Undefined
        /\ Includes(ToLowerCase(Item(i).author.username), ToLowerCase(authorFilter))
  /\ showPrivateOnly => (Item(i).technical.present /\ Item(i).technical.private)

ItemsOfTab ==
  CASE activeTab = "all" -> Range(storeData.flows) \cup Range(storeData.components)
    [] activeTab = "flows" -> Range(storeData.flows)
    [] activeTab = "components" -> Range(storeData.components)
    [] activeTab = "favorites" ->
         (Range(storeData.flows) \cup Range(storeData.components)) \cap favorites

\* C13: the filter stages are strictly conjunctive: for every catalog, criteria
\* and favorite-id set the items returned are exactly the items of the selected
\* tab that pass the search, tag, author and private stages.
C13_ConjunctiveFilter ==
  Rendered => Range(filteredItems) = {i \in ItemsOfTab : PassesEveryStage(i)}

\* C16: getFilteredItems returns a list without throwing for every criteria
\* value, also when items lack tags, tag names, the author or the username.
C16_FilteringNeverThrows ==
  Rendered =>
    ~getFilteredItemsThrows(storeData, activeTab, searchTerm, selectedTags,
                            authorFilter, favorites)

\* where the loaded snapshot holds the item: the flows first, then the components
LoadedPosition(i) ==
  CHOOSE k \in 1..(NumFlows + NumComponents) :
    (StoreIndex.flows \o StoreIndex.components)[k] = i

\* C14: the filtered list is ordered by the comparator of the sort key, and two
\* items that compare equal are in the order the loaded snapshot holds them in,
\* whatever tabs, filters and sort keys were used before.
C14_SortedTiesInLoadedOrder ==
  \A k \in 1..(Len(filteredItems) - 1) :
    \/ Compare(sortBy, filteredItems[k], filteredItems[k + 1]) < 0
    \/ /\ Compare(sortBy, filteredItems[k], filteredItems[k + 1]) = 0
       /\ LoadedPosition(filteredItems[k]) < LoadedPosition(filteredItems[k + 1])

\* a list of items as a catalog: its flows and its components, in their order
IsFlow(i) == Item(i).type = "FLOW"
IsComponent(i) == Item(i).type = "COMPONENT"
AsStoreData(items) ==
  [isNull |-> FALSE,
   flows |-> SelectSeq(items, IsFlow),
   components |-> SelectSeq(items, IsComponent)]

\* C15: getFilteredItems is idempotent: run on the list it returned, with the
\* same criteria and the same favorite ids, it returns that list again, in the
\* same order.
C15_FilterIdempotent ==
  Rendered =>
    getFilteredItems(AsStoreData(filteredItems), activeTab, searchTerm, selectedTags,
                     authorFilter, showPrivateOnly, sortBy, favorites)
      = filteredItems

\* a search narrowed the tab, the sort moved an item forward, and two
\* neighbours of the list compare equal
C15_Witness ==
  /\ Rendered
  /\ searchTerm # <<>>
  /\ Len(filteredItems) < Cardinality(ItemsOfTab)
  /\ \E k \in 1..(Len(filteredItems) - 1) :
       Compare(sortBy, filteredItems[k], filteredItems[k + 1]) = 0
  /\ \E k \in 1..(Len(filteredItems) - 1) :
       /\ Compare(sortBy, filteredItems[k], filteredItems[k + 1]) < 0
       /\ filteredItems[k] > filteredItems[k + 1]

\* this step is loadFlowData call k handing its graph to setFlowData
Settled(k) ==
  /\ k \in 1..Len(previewFetches)
  /\ previewFetches[k].phase = "replied"
  /\ previewFetches'[k].phase = "done"

\* C17: once the preview dialog is closed, and until the next openPreview, the
\* dialog holds no graph: a response of a fetch that was in flight at the close
\* does not set one.
C17_ClosedDialogHasNoGraph ==
  ~isPreviewOpen => flowData.isNull

\* the graphs loadFlowData can produce for an item
GraphsOf(i) == {LoadedFlowData(i, r) : r \in Responses(i)}

\* C18: the graph the open dialog displays is a graph of the item previewed:
\* the response of a fetch started for another item never becomes it.
C18_GraphOfPreviewedItem ==
  (isPreviewOpen /\ ~previewLoading /\ ~flowData.isNull) =>
    flowData \in GraphsOf(previewItem)

\* the response carries a node list and an edge list that are both non-empty
HasRealGraph(r) ==
  /\ r.kind = "ok" /\ r.hasData
  /\ r.hasNodes /\ r.nodes # <<>>
  /\ r.hasEdges /\ r.edges # <<>>

\* C19: loadFlowData sets the fetched nodes, edges and viewport as they are
\* exactly when the fetched data has a non-empty node list and a non-empty edge
\* list; in every other case (request failed, response not ok, no data, a list
\* missing or empty) it sets the placeholder of the item.
C19_RealGraphOnlyIfNonEmpty ==
  [][\A k \in 1..Len(previewFetches) :
       Settled(k) =>
         LET i == previewFetches[k].item
             r == previewFetches[k].response
         IN flowData' =
              IF HasRealGraph(r)
              THEN [isNull |-> FALSE, nodes |-> r.nodes, edges |-> r.edges,
                    viewport |-> IF r.hasViewport THEN r.viewport ELSE DefaultViewport]
              ELSE createPlaceholderFlow(i)]_vars

\* the response is one loadFlowData answers with the placeholder
PlaceholderUsed(r) == ~(r.kind = "ok" /\ r.hasData /\ r.hasNodes /\ r.hasEdges)

\* the graph is the placeholder the item calls for
IsPlaceholderOf(g, i) ==
  IF Item(i).type = "COMPONENT"
  THEN /\ Len(g.nodes) = 1
       /\ g.nodes[1].label = Item(i).name
       /\ g.edges = <<>>
  ELSE /\ Len(g.nodes) = 3
       /\ g.nodes[1].label = <<"I","n","p","u","t">>
       /\ g.nodes[2].label = Item(i).name
       /\ g.nodes[3].label = <<"O","u","t","p","u","t">>
       /\ Cardinality({g.nodes[n].id : n \in 1..3}) = 3
       /\ Len(g.edges) = 2
       /\ g.edges[1].source = g.nodes[1].id /\ g.edges[1].target = g.nodes[2].id
       /\ g.edges[2].source = g.nodes[2].id /\ g.edges[2].target = g.nodes[3].id

\* C20: whenever loadFlowData falls back to the placeholder, the graph it sets
\* is fixed by the item alone: for a component one node labelled with the
\* item's name and no edge; for a flow the three nodes Input, the item's name,
\* Output, and the two edges Input -> process, process -> Output, in that order.
C20_PlaceholderShape ==
  [][\A k \in 1..Len(previewFetches) :
       (Settled(k) /\ PlaceholderUsed(previewFetches[k].response)) =>
         /\ ~flowData'.isNull
         /\ IsPlaceholderOf(flowData', previewFetches[k].item)
         /\ \A r \in Responses(previewFetches[k].item) :
              PlaceholderUsed(r) =>
                LoadedFlowData(previewFetches[k].item, r) = flowData']_vars

\* the dialog shows the placeholder of a component after a failed download, and
\* the placeholder of a flow was set before
C20_Witness ==
  /\ isPreviewOpen /\ ~previewLoading
  /\ Item(previewItem).type = "COMPONENT"
  /\ Len(flowData.nodes) = 1 /\ flowData.nodes[1].id = "component-1"
  /\ \E k \in 1..Len(previewFetches) :
       /\ previewFetches[k].phase = "done"
       /\ previewFetches[k].item = previewItem
       /\ previewFetches[k].response.kind = "notOk"
  /\ \E k \in 1..Len(previewFetches) :
       /\ previewFetches[k].phase = "done"
       /\ Item(previewFetches[k].item).type = "FLOW"
       /\ previewFetches[k].response.kind = "throws"

\* a loadFlowData call for the item now previewed has not finished
FetchInFlightFor(i) ==
  \E k \in 1..Len(previewFetches) :
    previewFetches[k].item = i /\ previewFetches[k].phase # "done"

\* C30: while the dialog is open and a graph fetch for the item previewed is in
\* flight the dialog's loading flag is true, also when a fetch started for the
\* item previewed before finishes in the meantime; once no fetch is in flight
\* the flag is false.
C30_LoadingWhileFetching ==
  /\ (isPreviewOpen /\ FetchInFlightFor(previewItem)) => previewLoading
  /\ (\A k \in 1..Len(previewFetches) : previewFetches[k].phase = "done")
       => ~previewLoading

\* the catalog load has failed: there is no snapshot and no load under way
LoadFailed == storeData.isNull /\ ~loading

\* C21: the load moves from Loading to Ready or to Error and is never started
\* again, and after a failed load the page is in a blocking error state: it
\* takes no filter, tab, sort or pager input.
C21_FailedLoadBlocksPage ==
  [][/\ loading' => loading
     /\ (loading /\ ~loading') =>
          (storeData'.isNull <=> lastAlert' = "Failed to load showcase data")
     /\ LoadFailed => (criteria' = criteria /\ currentPage' = currentPage)]_vars

\* the sanitized name has three whitespace characters in a row
HasLongSpaceRun(n) ==
  \E p \in 1..Len(n) : p + 2 <= Len(n) /\ IsSpace(n[p]) /\ IsSpace(n[p + 1]) /\ IsSpace(n[p + 2])

\* C26: the path of every download has the folder of the item's type (flows for
\* a flow, components for a component), the item's id and the sanitized name;
\* the sanitized name has no parenthesis, none of < > : " / \ | ? *, no plus
\* sign, no run of three or more whitespace characters and no whitespace at
\* its ends, and sanitizing it again returns it unchanged.
C26_ExportPath ==
  \A k \in 1..Len(downloads) :
    LET d == downloads[k]
        n == d.filePath.sanitizedName
    IN /\ d.filePath.folder = (IF IsFlow(d.item) THEN "flows" ELSE "components")
       /\ d.filePath.id = d.item
       /\ \A p \in 1..Len(n) : n[p] \notin Parentheses \cup InvalidFilenameChars \cup {"+"}
       /\ ~HasLongSpaceRun(n)
       /\ n = <<>> \/ (~IsSpace(n[1]) /\ ~IsSpace(n[Len(n)]))
       /\ sanitizeFilename(n) = n

\* a download of a component whose name has a run of three whitespace
\* characters inside, which the sanitized name has as two spaces
C26_Witness ==
  \E k \in 1..Len(downloads) :
    /\ downloads[k].name = <<"a", " ", "\t", " ", "a">>
    /\ downloads[k].item = NumFlows + 1
    /\ downloads[k].filePath.folder = "components"
    /\ downloads[k].filePath.sanitizedName = <<"a", " ", " ", "a">>

\* the grab and download requests that have not settled at the page
GrabInFlight(k) == grabs[k].phase \in {"sent", "replied"}
DownloadInFlight(k) == downloads[k].phase = "sent"
GrabsInFlightFor(i) == {k \in 1..Len(grabs) : grabs[k].item = i /\ GrabInFlight(k)}
DownloadsInFlightFor(i) ==
  {k \in 1..Len(downloads) : downloads[k].item = i /\ DownloadInFlight(k)}

\* C27: for every item id at most one grab request and at most one download
\* request is in flight, also when grabFlow or handleDownload is invoked twice
\* before the component has rendered again.
C27_OneRequestPerItem ==
  \A i \in OperationIds :
    /\ Cardinality(GrabsInFlightFor(i)) <= 1
    /\ Cardinality(DownloadsInFlightFor(i)) <= 1

GrabSettled(k) == grabs[k].phase \in {"resolved", "rejected"}
DownloadSettled(k) == downloads[k].phase \in {"resolved", "rejected"}

\* an id is in an in-flight set only while a request for it is in flight
InFlightSetsCleared ==
  /\ \A i \in grabbingItems : GrabsInFlightFor(i) # {}
  /\ \A i \in downloadingItems : DownloadsInFlightFor(i) # {}

\* a step in which a grab or a download finishes removes its id from the set; if
\* it fails, the failure is notified and no request is started
SettleStep ==
  /\ \A k \in 1..Len(grabs) :
       GrabInFlight(k) /\ GrabSettled(k)'
         => /\ grabs[k].item \notin grabbingItems'
            /\ grabs[k].phase' = "rejected"
                 => /\ lastAlert' = "Failed to grab flow"
                    /\ Len(grabs') = Len(grabs)
                    /\ Len(downloads') = Len(downloads)
  /\ \A k \in 1..Len(downloads) :
       DownloadInFlight(k) /\ DownloadSettled(k)'
         => /\ downloads[k].item \notin downloadingItems'
            /\ downloads[k].phase' = "rejected"
                 => /\ lastAlert' = "Download failed"
                    /\ Len(grabs') = Len(grabs)
                    /\ Len(downloads') = Len(downloads)

\* C22: every grab and every download that is started finishes; when it
\* finishes, by success or by failure, its id is removed from the in-flight
\* set, and an id stays in a set only while a request for it is in flight, so
\* the item can be grabbed or downloaded again; a failure raises its
\* notification and starts no request.
C22_OperationsFinishAndClear ==
  /\ []InFlightSetsCleared
  /\ [][SettleStep]_vars
  /\ \A k \in 1..MaxGrabs :
       (k <= Len(grabs) /\ GrabInFlight(k)) ~> (k <= Len(grabs) /\ GrabSettled(k))
  /\ \A k \in 1..MaxDownloads :
       (k <= Len(downloads) /\ DownloadInFlight(k))
         ~> (k <= Len(downloads) /\ DownloadSettled(k))

\* a grab of an item failed and was notified, the page has rendered without
\* the id in the set, and the item is being grabbed again
C22_Witness ==
  /\ Len(grabs) = 2
  /\ grabs[1].item = grabs[2].item
  /\ grabs[1].phase = "rejected"
  /\ lastAlert = "Failed to grab flow"
  /\ GrabInFlight(2)
  /\ grabbingItems = {grabs[2].item}
  /\ downloadingItems = {}
  /\ \E k \in 1..Len(downloads) : downloads[k].phase = "resolved"

\* the workspace entities that are copies of item i, and the grabs of i that
\* completed successfully
CopiesOf(i) ==
  {k \in 1..Len(workspace) : workspace[k].name = GrabbedName(Item(i).name)}
ResolvedGrabsOf(i) ==
  {k \in 1..Len(grabs) : grabs[k].item = i /\ grabs[k].phase = "resolved"}

\* C24: grabs are not deduplicated: the workspace holds at least as many copies
\* of an item as grabs of it have completed successfully, one more with every
\* grab the service handles, and every copy has is_component equal to
\* (item type = COMPONENT).
C24_GrabsNotDeduplicated ==
  \A i \in OperationIds :
    /\ Cardinality(CopiesOf(i)) >= Cardinality(ResolvedGrabsOf(i))
    /\ \A k \in CopiesOf(i) : workspace[k].is_component = IsComponent(i)

\* the component was grabbed twice with success and has two copies
C24_Witness ==
  /\ Cardinality(ResolvedGrabsOf(NumFlows + 1)) = 2
  /\ Cardinality(CopiesOf(NumFlows + 1)) = 2
  /\ \A k \in CopiesOf(NumFlows + 1) : workspace[k].is_component

\* a grab, a download, a toggle settles at the page in this step
GrabSettles == \E k \in 1..Len(grabs) : GrabInFlight(k) /\ GrabSettled(k)'
DownloadSettles == \E k \in 1..Len(downloads) : DownloadInFlight(k) /\ DownloadSettled(k)'
ToggleSettles ==
  \E k \in 1..Len(toggles) : Pending(k) /\ toggles'[k].phase \in {"resolved", "rejected"}

\* C23: the completion or failure of a grab, a download or a favorite toggle
\* leaves the requests of the other two kinds, their in-flight sets and what
\* the services hold for them as they are.
C23_IndependentLifecycles ==
  [][/\ GrabSettles
        => UNCHANGED <<downloads, downloadingItems, toggles, serverFavorites, lastResult>>
     /\ DownloadSettles
        => UNCHANGED <<grabs, grabbingItems, workspace, toggles, serverFavorites, lastResult>>
     /\ ToggleSettles
        => UNCHANGED <<grabs, grabbingItems, workspace, downloads, downloadingItems>>]_vars

\* a grab, a download and a favorite toggle of item 1 are in flight at once,
\* so that each of them can complete or fail while the other two are in flight
C23_Witness ==
  /\ GrabsInFlightFor(1) # {}
  /\ 1 \in grabbingItems
  /\ DownloadsInFlightFor(1) # {}
  /\ 1 \in downloadingItems
  /\ \E k \in 1..Len(toggles) : toggles[k].id = 1 /\ Pending(k)

\* C25: the favorite ids the page holds change only in the step in which the
\* response to a favorite-list request arrives, and in that step they become
\* the ids of that response, whatever was held before; the ids of a response are the ids the favorite service held when
\* it answered.  Starting from the default empty set, the page therefore never
\* holds ids other than a list the service returned, and no toggle, grab,
\* download, preview or filter change adds or removes an id.
C25_FavoritesAreServerCopies ==
  [][/\ favData' # favData
        => /\ favFetch.phase = "replied"
           /\ favData' = [defined |-> TRUE, ids |-> favFetch.payload]
     /\ favFetch.phase = "replied" /\ favFetch'.phase = "idle" /\ favStatus' = "success"
        => favorites' = favFetch.payload
     /\ favFetch'.phase = "replied" /\ favFetch' # favFetch
        => favFetch'.payload = serverFavorites]_vars

\* the page holds the list the service returned after a toggle of item 1, which
\* differs from the first list, while a grab, a download and a preview of the
\* item have been started and a search term is set
C25_Witness ==
  /\ favData.defined
  /\ favorites = InitialFavorites \ {1}
  /\ grabs # <<>>
  /\ downloads # <<>>
  /\ previewFetches # <<>>
  /\ searchTerm # <<>>

\* the ids of the items of the loaded snapshot
LoadedIds == Range(storeData.flows) \cup Range(storeData.components)
\* this step is a call of toggleFavorite with an id no loaded item has
CalledWithUnknownId ==
  /\ lastEvent' # lastEvent
  /\ lastEvent'.name = "toggleFavorite(itemId)"
  /\ lastEvent'.id \notin LoadedIds

\* C28: a call of toggleFavorite with an id that is not the id of an item of
\* the loaded snapshot, be it before the load, after a failed load or after a
\* successful one, sends no request, raises no notification and leaves the
\* state of the page, of its requests and of the favorite service unchanged.
C28_UnknownIdIsNoOp ==
  [][CalledWithUnknownId
       => UNCHANGED <<pageVars, previewVars, opVars, controlVars>>]_vars

\* toggleFavorite was just called with an unknown id on the loaded page, while
\* a toggle of item 1 is in flight
C28_Witness ==
  /\ lastEvent.name = "toggleFavorite(itemId)"
  /\ lastEvent.id = UnknownId
  /\ ~storeData.isNull
  /\ \E k \in 1..Len(toggles) : Pending(k)

\* C29: a step that changes typeFilter, showFavoritesOnly or viewMode leaves
\* the filtered list, totalPages and the current page as they are.
C29_ControlsChangeNothing ==
  [][controlVars' # controlVars
       => /\ filteredItems' = filteredItems
          /\ totalPages' = totalPages
          /\ currentPage' = currentPage]_vars

\* on page 2 of the flows tab, which lists flows and no component, the type
\* filter says COMPONENT, the Favorites button is on and the view is a list
C29_Witness ==
  /\ typeFilter = "COMPONENT"
  /\ showFavoritesOnly
  /\ viewMode = "list"
  /\ activeTab = "flows"
  /\ currentPage = 2
  /\ totalPages = 2
  /\ Len(filteredItems) = NumFlows
====
